---- MODULE Spec2Model ----
(***************************************************************************)
(* Model of the content-service envelope handlers (store / retrieve /      *)
(* delete) in both revisions found in the source: the earlier revision,    *)
(* which talks to Cloud Files and Mongo directly through async.waterfall,  *)
(* and the later revision, which forks the two backend operations with     *)
(* async.parallel and reaches the backends through the storage module.     *)
(* The two backends (BlobStore, SearchIndex) are external services: every  *)
(* operation on them completes in a later step and may fail.               *)
(***************************************************************************)
EXTENDS Bags, FiniteSets, Integers, Naturals, Sequences, TLC

\* ------------------------------------------------------------------ bounds
MaxCalls == 2

\* ------------------------------------------------------------- input data
\* Content IDs are character sequences (req.params.id).
ContentIDs == { <<"p", "/", "1">> }

StrVal(s) == [kind |-> "str", items |-> <<s>>]
ArrVal(q) == [kind |-> "arr", items |-> q]

\* Envelopes are JSON objects (req.body): a mapping of field names to values.
E1 == [title |-> StrVal("Hi"), tags |-> ArrVal(<<"a", "b">>), body |-> StrVal("...")]
E2 == [publish_date |-> StrVal("2015"), categories |-> ArrVal(<<"c">>), body |-> StrVal("x")]
Envelopes == {E1, E2}
NoEnvelope == [none |-> StrVal("")]

\* Property order used when an object is written out.
FieldOrder == <<"title", "publish_date", "tags", "categories", "body">>

\* ---------------------------------------------------------------- errors
\* An error object: statusCode and status are 0 when the property is absent.
NoErr == [kind |-> "none", statusCode |-> 0, status |-> 0, from |-> "none"]
Failure(kind, code, from) ==
  [kind |-> kind, statusCode |-> code, status |-> 0, from |-> from]
\* A backend operation either works or fails with a plain Error.
Faults == {"none", "fail"}
\* The download of a retrieve may also fail with an explicit statusCode.
DownloadFaults == Faults \cup {"fail503"}
\* A deletion may also fail with an error that carries status and no statusCode.
DeleteFaults == Faults \cup {"fail409"}
FaultErr(fault, from) ==
  IF fault = "fail503" THEN Failure("BackendFailure", 503, from)
  ELSE IF fault = "fail409"
    THEN [Failure("BackendFailure", 0, from) EXCEPT !.status = 409]
  ELSE Failure("BackendFailure", 0, from)

\* ----------------------------------------------------- encodeURIComponent
Escape(c) ==
  IF c = "/" THEN <<"%", "2", "F">>
  ELSE IF c = " " THEN <<"%", "2", "0">>
  ELSE <<c>>

RECURSIVE encodeURIComponent(_)
encodeURIComponent(s) ==
  IF s = <<>> THEN <<>> ELSE Escape(Head(s)) \o encodeURIComponent(Tail(s))

Keys == { encodeURIComponent(id) : id \in ContentIDs }

\* --------------------------------------------------- JSON.stringify/parse
Tok(t, k, v) == [t |-> t, k |-> k, v |-> v]
LBrace == Tok("{", "", StrVal(""))
RBrace == Tok("}", "", StrVal(""))

RECURSIVE Members(_, _)
Members(env, n) ==
  IF n > Len(FieldOrder) THEN <<>>
  ELSE (IF FieldOrder[n] \in DOMAIN env
          THEN <<Tok("member", FieldOrder[n], env[FieldOrder[n]])>>
          ELSE <<>>) \o Members(env, n + 1)

\* Variant: the body field is lost on the way out.
JSONstringify_dropsBody(env) ==
  <<LBrace>> \o Members([k \in DOMAIN env \ {"body"} |-> env[k]], 1) \o <<RBrace>>

JSONstringify(env) == <<LBrace>> \o Members(env, 1) \o <<RBrace>>

WellFormed(bytes) ==
  /\ Len(bytes) >= 2
  /\ bytes[1] = LBrace
  /\ bytes[Len(bytes)] = RBrace
  /\ \A n \in 2..(Len(bytes) - 1) : bytes[n].t = "member"
  /\ \A m, n \in 2..(Len(bytes) - 1) : bytes[m].k = bytes[n].k => m = n

\* Defined for well-formed bytes only; JSON.parse throws on anything else.
JSONparse(bytes) ==
  [k \in { bytes[n].k : n \in 2..(Len(bytes) - 1) } |->
      bytes[CHOOSE n \in 2..(Len(bytes) - 1) : bytes[n].k = k].v]

\* Bytes of an object that some other writer left in the container and that
\* are not a JSON document (a truncated upload).
CorruptBytes == <<LBrace, Tok("member", "title", StrVal("Hi"))>>

\* ------------------------------------------------------- asset directory
\* The documents of the layoutAssets collection / the named assets.
LayoutAssets == << [key |-> "logo", publicURL |-> "https://cdn/logo-abc.png"] >>

\* ------------------------------------------------------------------ state
VARIABLES
  ver,     \* which revision of the handlers is deployed: 1 (earlier) or 2
  blob,    \* BlobStore container: storage key -> bytes, for the keys that exist
  index,   \* SearchIndex collection: a bag of documents
  calls,   \* the requests received so far, in order of arrival
  files,   \* the assets of the accept request being served, in batch order
  resp     \* the accept request: results array, responses sent, next calls

vars == <<ver, blob, index, calls, files, resp>>

\* The accept request before it arrives.
NoResp ==
  [ started |-> FALSE,
    armed   |-> "before",  \* async's run-once guard: set before | after the call
    called  |-> FALSE,     \* the guard is set: the final callback runs no more
    results |-> <<>>,      \* the results array: hole | undefined | value
    passed  |-> <<>>,      \* the results array as the final callback got it
    sent    |-> <<>>,      \* responses sent, in order
    nexts   |-> 0,         \* times the handler called next
    thrown  |-> 0 ]        \* exceptions that left the final callback

NoDoc == [nodoc |-> NoEnvelope]

\* st.kv  : state of the BlobStore operation of the call
\* st.fts : state of its second operation (SearchIndex write/delete; for a
\*          retrieve, the asset directory lookup)
\* A call is settled once it has answered and neither of its backend
\* operations is still in flight.
Settled(c) == c.out # "none" /\ c.st.kv # "pending" /\ c.st.fts # "pending"
Accepting == Len(calls) < MaxCalls

\* quiet: every earlier call on the same content ID had settled when this
\* call arrived.
NewCall(op, id, env, kvst, ftsst) ==
  [ op    |-> op, id |-> id, env |-> env,
    quiet |-> \A j \in DOMAIN calls : calls[j].id = id => Settled(calls[j]),
    st    |-> [kv |-> kvst, fts |-> ftsst],
    errs  |-> [kv |-> NoErr, fts |-> NoErr],
    out   |-> "none",      \* none | 204 | 200 | error | uncaught
    err   |-> NoErr,       \* the error handed to next / thrown
    status |-> 0,          \* HTTP status of the answer, 0 while unanswered
    seen  |-> "unread",    \* what the download found: absent | corrupt | envelope
    doc   |-> NoDoc,
    sent  |-> 0,           \* responses sent by the handler (res.send, res.json)
    nexts |-> 0 ]          \* times the handler called next

Settle(c, branch, err) ==
  [c EXCEPT !.st[branch] = IF err = NoErr THEN "ok" ELSE "err",
            !.errs[branch] = err]

\* Variant: the error's own statusCode is ignored.
StatusOf_always500(err) == 500

\* err.statusCode || 500
StatusOf(err) == IF err.statusCode # 0 THEN err.statusCode ELSE 500

\* -------------------------------------------------- container primitives
Put(b, key, bytes) ==
  [k \in DOMAIN b \cup {key} |-> IF k = key THEN bytes ELSE b[k]]
Remove(b, key) == [k \in DOMAIN b \ {key} |-> b[k]]

DocsOf(idx, id) ==
  { d \in BagToSet(idx) : d["content_id"] = [kind |-> "id", items |-> id] }
Without(idx, id) ==
  [d \in BagToSet(idx) \ DocsOf(idx, id) |-> idx[d]]

\* Variant: the body is picked as well.
Projected_withBody == {"title", "publish_date", "tags", "categories", "body"}

\* _.pick(doc.envelope, [...]); subdoc.content_id = doc.contentID
Projected == {"title", "publish_date", "tags", "categories"}
Subdoc(id, env) ==
  [k \in (DOMAIN env \cap Projected) \cup {"content_id"} |->
      IF k = "content_id" THEN [kind |-> "id", items |-> id] ELSE env[k]]

TypeOK ==
  /\ ver \in {1, 2}
  /\ DOMAIN blob \subseteq Keys
  /\ IsABag(index)
  /\ Len(calls) <= MaxCalls

Init ==
  /\ ver \in {1, 2}
  /\ blob \in { [k \in S |-> CorruptBytes] : S \in SUBSET Keys }
  /\ index = EmptyBag
  /\ calls = <<>>
  /\ files = <<>>
  /\ resp = NoResp

\* ------------------------------------------- storage module (later rev.)
\* Each adapter operation yields the new backend contents and the error it
\* hands to its callback (NoErr on success).  A failed operation leaves the
\* backend as it was.
storeContent(b, id, env, fault) ==
  IF fault # "none" THEN [blob |-> b, err |-> FaultErr(fault, "kv")]
  ELSE [blob |-> Put(b, encodeURIComponent(id), JSONstringify(env)), err |-> NoErr]

indexContent(idx, id, env, fault) ==
  IF fault # "none" THEN [index |-> idx, err |-> FaultErr(fault, "fts")]
  ELSE [index |-> Without(idx, id) (+) SetToBag({Subdoc(id, env)}), err |-> NoErr]

\* Variant: deleting an object that does not exist is an error.
deleteContent_strict(b, id, fault) ==
  IF fault # "none" THEN [blob |-> b, err |-> FaultErr(fault, "kv")]
  ELSE IF encodeURIComponent(id) \notin DOMAIN b
    THEN [blob |-> b, err |-> Failure("NotFound", 404, "kv")]
  ELSE [blob |-> Remove(b, encodeURIComponent(id)), err |-> NoErr]

deleteContent(b, id, fault) ==
  IF fault # "none" THEN [blob |-> b, err |-> FaultErr(fault, "kv")]
  ELSE [blob |-> Remove(b, encodeURIComponent(id)), err |-> NoErr]

unindexContent(idx, id, fault) ==
  IF fault # "none" THEN [index |-> idx, err |-> FaultErr(fault, "fts")]
  ELSE [index |-> Without(idx, id), err |-> NoErr]

getContent(b, id, fault) ==
  LET key == encodeURIComponent(id) IN
  IF fault # "none"
    THEN [err |-> FaultErr(fault, "kv"), envelope |-> NoEnvelope, seen |-> "unread"]
  ELSE IF key \notin DOMAIN b
    THEN [err |-> Failure("NotFound", 404, "kv"), envelope |-> NoEnvelope, seen |-> "absent"]
  ELSE IF ~WellFormed(b[key])
    THEN [err |-> Failure("Corrupt", 0, "kv"), envelope |-> NoEnvelope, seen |-> "corrupt"]
  ELSE [err |-> NoErr, envelope |-> JSONparse(b[key]), seen |-> "envelope"]

enumerateNamed(fault) ==
  IF fault # "none" THEN [err |-> FaultErr(fault, "fts"), assets |-> NoEnvelope]
  ELSE [err |-> NoErr,
        assets |-> [n \in { LayoutAssets[k].key : k \in DOMAIN LayoutAssets } |->
                      StrVal(LayoutAssets[CHOOSE k \in DOMAIN LayoutAssets :
                                            LayoutAssets[k].key = n].publicURL)]]

\* ---------------------------------------------------------- async.parallel
\* A task's callback: record the task's result; the final callback runs at the
\* first error, or once both tasks have succeeded, and runs at most once.
\* Variant: the final callback runs as soon as one task has succeeded.
parallel_eager(c, branch, err) ==
  IF c.out # "none" THEN "wait"
  ELSE IF err # NoErr THEN "error"
  ELSE "done"

\* Variant: nothing keeps the final callback from running again.
parallel_noOnce(c, branch, err) ==
  IF err # NoErr THEN "error"
  ELSE IF \A b \in {"kv", "fts"} : Settle(c, branch, err).st[b] = "ok" THEN "done"
  ELSE "wait"

\* Yields "error", "done" or "wait".
parallel(c, branch, err) ==
  IF c.out # "none" THEN "wait"
  ELSE IF err # NoErr THEN "error"
  ELSE IF \A b \in {"kv", "fts"} : Settle(c, branch, err).st[b] = "ok" THEN "done"
  ELSE "wait"

\* --------------------------------------------------- later rev.: store
\* Variant: the error argument is not looked at.
storeCallback_ignoresErr(c, fire, err) ==
  IF fire \in {"error", "done"}
    THEN [c EXCEPT !.out = "204", !.status = 204, !.sent = @ + 1, !.nexts = @ + 1]
  ELSE c

\* Final callback of exports.store.
storeCallback(c, fire, err) ==
  IF fire = "error"
    THEN [c EXCEPT !.out = "error", !.err = err, !.status = StatusOf(err),
                   !.nexts = @ + 1]
  ELSE IF fire = "done"
    THEN [c EXCEPT !.out = "204", !.status = 204, !.sent = @ + 1, !.nexts = @ + 1]
  ELSE c

store(id, env) ==
  /\ ver = 2
  /\ Accepting
  /\ calls' = Append(calls, NewCall("store", id, env, "pending", "pending"))
  /\ UNCHANGED <<files, resp, ver, blob, index>>

\* Variant: a blob write that finds another call on the ID unsettled is dropped.
kvStore_firstWriterWins(i, fault) ==
  /\ ver = 2
  /\ calls[i].op = "store"
  /\ calls[i].st.kv = "pending"
  /\ LET c == calls[i]
         r == storeContent(blob, c.id, c.env, fault)
     IN /\ blob' = IF \E j \in DOMAIN calls :
                         j # i /\ calls[j].id = c.id /\ ~Settled(calls[j])
                     THEN blob ELSE r.blob
        /\ calls' = [calls EXCEPT ![i] =
             storeCallback(Settle(c, "kv", r.err), parallel(c, "kv", r.err), r.err)]
  /\ UNCHANGED <<files, resp, ver, index>>

kvStore(i, fault) ==
  /\ ver = 2
  /\ calls[i].op = "store"
  /\ calls[i].st.kv = "pending"
  /\ LET c == calls[i]
         r == storeContent(blob, c.id, c.env, fault)
     IN /\ blob' = r.blob
        /\ calls' = [calls EXCEPT ![i] =
             storeCallback(Settle(c, "kv", r.err), parallel(c, "kv", r.err), r.err)]
  /\ UNCHANGED <<files, resp, ver, index>>

ftsStore(i, fault) ==
  /\ ver = 2
  /\ calls[i].op = "store"
  /\ calls[i].st.fts = "pending"
  /\ LET c == calls[i]
         r == indexContent(index, c.id, c.env, fault)
     IN /\ index' = r.index
        /\ calls' = [calls EXCEPT ![i] =
             storeCallback(Settle(c, "fts", r.err), parallel(c, "fts", r.err), r.err)]
  /\ UNCHANGED <<files, resp, ver, blob>>

\* --------------------------------------------------- later rev.: delete
\* err.statusCode || err.status || 500
DeleteStatusOf(err) ==
  IF err.statusCode # 0 THEN err.statusCode
  ELSE IF err.status # 0 THEN err.status
  ELSE 500

\* Final callback of exports.delete:
\* err.statusCode = err.statusCode || err.status || 500; next(err).
deleteCallback(c, fire, err) ==
  IF fire = "error"
    THEN [c EXCEPT !.out = "error",
                   !.err = [err EXCEPT !.statusCode = DeleteStatusOf(err)],
                   !.status = DeleteStatusOf(err),
                   !.nexts = @ + 1]
  ELSE IF fire = "done"
    THEN [c EXCEPT !.out = "204", !.status = 204, !.sent = @ + 1, !.nexts = @ + 1]
  ELSE c

delete(id) ==
  /\ ver = 2
  /\ Accepting
  /\ calls' = Append(calls, NewCall("delete", id, NoEnvelope, "pending", "pending"))
  /\ UNCHANGED <<files, resp, ver, blob, index>>

kvDelete(i, fault) ==
  /\ ver = 2
  /\ calls[i].op = "delete"
  /\ calls[i].st.kv = "pending"
  /\ LET c == calls[i]
         r == deleteContent(blob, c.id, fault)
     IN /\ blob' = r.blob
        /\ calls' = [calls EXCEPT ![i] =
             deleteCallback(Settle(c, "kv", r.err), parallel(c, "kv", r.err), r.err)]
  /\ UNCHANGED <<files, resp, ver, index>>

ftsDelete(i, fault) ==
  /\ ver = 2
  /\ calls[i].op = "delete"
  /\ calls[i].st.fts = "pending"
  /\ LET c == calls[i]
         r == unindexContent(index, c.id, fault)
     IN /\ index' = r.index
        /\ calls' = [calls EXCEPT ![i] =
             deleteCallback(Settle(c, "fts", r.err), parallel(c, "fts", r.err), r.err)]
  /\ UNCHANGED <<files, resp, ver, blob>>

\* --------------------------------------------------- later rev.: retrieve
\* Variant: a failed asset lookup is not treated as fatal.
retrieveCallback_swallows(c, err, doc) ==
  IF err # NoErr /\ err.from = "kv"
    THEN [c EXCEPT !.out = "error", !.err = err, !.status = StatusOf(err),
                   !.nexts = @ + 1]
  ELSE [c EXCEPT !.out = "200", !.status = 200, !.doc = doc,
                 !.sent = @ + 1, !.nexts = @ + 1]

\* Final callback of exports.retrieve (both revisions answer alike).
retrieveCallback(c, err, doc) ==
  IF err # NoErr
    THEN [c EXCEPT !.out = "error", !.err = err, !.status = StatusOf(err),
                   !.nexts = @ + 1]
  ELSE [c EXCEPT !.out = "200", !.status = 200, !.doc = doc,
                 !.sent = @ + 1, !.nexts = @ + 1]

retrieve(id) ==
  /\ ver = 2
  /\ Accepting
  /\ calls' = Append(calls, NewCall("retrieve", id, NoEnvelope, "pending", "idle"))
  /\ UNCHANGED <<files, resp, ver, blob, index>>

\* Variant: the asset lookup is issued whatever the download gave.
downloadContent_lookupAnyway(i, fault) ==
  /\ ver = 2
  /\ calls[i].op = "retrieve"
  /\ calls[i].st.kv = "pending"
  /\ LET r == getContent(blob, calls[i].id, fault)
         c == [Settle(calls[i], "kv", r.err) EXCEPT !.seen = r.seen]
     IN calls' = [calls EXCEPT ![i] =
          [c EXCEPT !.st.fts = "pending", !.doc = [envelope |-> r.envelope]]]
  /\ UNCHANGED <<files, resp, ver, blob, index>>

\* storage.getContent's callback; on success the waterfall goes on to
\* injectAssetVars with {envelope: envelope}.
downloadContent(i, fault) ==
  /\ ver = 2
  /\ calls[i].op = "retrieve"
  /\ calls[i].st.kv = "pending"
  /\ LET r == getContent(blob, calls[i].id, fault)
         c == [Settle(calls[i], "kv", r.err) EXCEPT !.seen = r.seen]
     IN calls' = [calls EXCEPT ![i] =
          IF r.err # NoErr THEN retrieveCallback(c, r.err, NoDoc)
          ELSE [c EXCEPT !.st.fts = "pending", !.doc = [envelope |-> r.envelope]]]
  /\ UNCHANGED <<files, resp, ver, blob, index>>

\* assets.enumerateNamed's callback: doc.assets = assets.
injectAssetVars(i, fault) ==
  /\ ver = 2
  /\ calls[i].op = "retrieve"
  /\ calls[i].st.fts = "pending"
  /\ LET r == enumerateNamed(fault)
         c == Settle(calls[i], "fts", r.err)
     IN calls' = [calls EXCEPT ![i] =
          IF r.err # NoErr THEN retrieveCallback(c, r.err, NoDoc)
          ELSE retrieveCallback(c, NoErr,
                 [envelope |-> c.doc.envelope, assets |-> r.assets])]
  /\ UNCHANGED <<files, resp, ver, blob, index>>

\* --------------------------------------------- earlier rev.: store
\* Final callback of the earlier exports.store: next.ifError(err) throws the
\* error to the server; otherwise res.send(204); next().
storeCallback_earlier(c, err) ==
  IF err # NoErr THEN [c EXCEPT !.out = "error", !.err = err, !.status = StatusOf(err)]
  ELSE [c EXCEPT !.out = "204", !.status = 204, !.sent = @ + 1, !.nexts = @ + 1]

store_earlier(id, env) ==
  /\ ver = 1
  /\ Accepting
  /\ calls' = Append(calls, NewCall("store", id, env, "pending", "idle"))
  /\ UNCHANGED <<files, resp, ver, blob, index>>

\* The upload's completion callback; on success the waterfall goes on to
\* indexEnvelope.
storeEnvelope(i, fault) ==
  /\ ver = 1
  /\ calls[i].op = "store"
  /\ calls[i].st.kv = "pending"
  /\ LET c == calls[i]
         err == IF fault # "none" THEN FaultErr(fault, "kv") ELSE NoErr
     IN /\ blob' = IF err # NoErr THEN blob
                   ELSE Put(blob, encodeURIComponent(c.id), JSONstringify(c.env))
        /\ calls' = [calls EXCEPT ![i] =
             IF err # NoErr THEN storeCallback_earlier(Settle(c, "kv", err), err)
             ELSE [Settle(c, "kv", err) EXCEPT !.st.fts = "pending"]]
  /\ UNCHANGED <<files, resp, ver, index>>

\* insertOne's callback.
indexEnvelope(i, fault) ==
  /\ ver = 1
  /\ calls[i].op = "store"
  /\ calls[i].st.fts = "pending"
  /\ LET c == calls[i]
         err == IF fault # "none" THEN FaultErr(fault, "fts") ELSE NoErr
     IN /\ index' = IF err # NoErr THEN index
                    ELSE index (+) SetToBag({Subdoc(c.id, c.env)})
        /\ calls' = [calls EXCEPT ![i] =
             storeCallback_earlier(Settle(c, "fts", err), err)]
  /\ UNCHANGED <<files, resp, ver, blob>>

\* --------------------------------------------- earlier rev.: retrieve
\* res.status(err.statusCode || 500); res.send(); next()  /  res.json(doc); next()
retrieveCallback_earlier(c, err, doc) ==
  IF err # NoErr
    THEN [c EXCEPT !.out = "error", !.err = err, !.status = StatusOf(err),
                   !.sent = @ + 1, !.nexts = @ + 1]
  ELSE [c EXCEPT !.out = "200", !.status = 200, !.doc = doc,
                 !.sent = @ + 1, !.nexts = @ + 1]

retrieve_earlier(id) ==
  /\ ver = 1
  /\ Accepting
  /\ calls' = Append(calls, NewCall("retrieve", id, NoEnvelope, "pending", "idle"))
  /\ UNCHANGED <<files, resp, ver, blob, index>>

\* The download stream's 'error' or 'end' event.  On 'end' the handler runs
\* JSON.parse on the bytes; when that throws, the exception leaves the event
\* handler and the waterfall's callback is never called.
downloadContent_earlier(i, fault) ==
  /\ ver = 1
  /\ calls[i].op = "retrieve"
  /\ calls[i].st.kv = "pending"
  /\ LET c == calls[i]
         key == encodeURIComponent(c.id)
     IN calls' = [calls EXCEPT ![i] =
          IF fault # "none"
            THEN retrieveCallback_earlier(Settle(c, "kv", FaultErr(fault, "kv")),
                                          FaultErr(fault, "kv"), NoDoc)
          ELSE IF key \notin DOMAIN blob
            THEN retrieveCallback_earlier(
                   [Settle(c, "kv", Failure("NotFound", 404, "kv")) EXCEPT !.seen = "absent"],
                   Failure("NotFound", 404, "kv"), NoDoc)
          ELSE IF ~WellFormed(blob[key])
            THEN [c EXCEPT !.st.kv = "ok", !.seen = "corrupt", !.out = "uncaught"]
          ELSE [c EXCEPT !.st.kv = "ok", !.seen = "envelope", !.st.fts = "pending",
                         !.doc = [envelope |-> JSONparse(blob[key])]]]
  /\ UNCHANGED <<files, resp, ver, blob, index>>

\* for (...) assets[assetVar] = assetVar.publicURL : the key is the document
\* itself, which as a property name reads "[object Object]".
assetVars_earlier ==
  [n \in (IF LayoutAssets = <<>> THEN {} ELSE {"[object Object]"}) |->
     StrVal(LayoutAssets[Len(LayoutAssets)].publicURL)]

injectAssetVars_earlier(i, fault) ==
  /\ ver = 1
  /\ calls[i].op = "retrieve"
  /\ calls[i].st.fts = "pending"
  /\ LET err == IF fault # "none" THEN FaultErr(fault, "fts") ELSE NoErr
         c == Settle(calls[i], "fts", err)
     IN calls' = [calls EXCEPT ![i] =
          IF err # NoErr THEN retrieveCallback_earlier(c, err, NoDoc)
          ELSE retrieveCallback_earlier(c, NoErr,
                 [envelope |-> c.doc.envelope, assets |-> assetVars_earlier])]
  /\ UNCHANGED <<files, resp, ver, blob, index>>

\* --------------------------------------------- earlier rev.: delete
delete_earlier(id) ==
  /\ ver = 1
  /\ Accepting
  /\ calls' = Append(calls, NewCall("delete", id, NoEnvelope, "pending", "idle"))
  /\ UNCHANGED <<files, resp, ver, blob, index>>

\* removeFile's callback: next.ifError(err); res.send(204); next().  Only the
\* container object is removed.
removeFile(i, fault) ==
  /\ ver = 1
  /\ calls[i].op = "delete"
  /\ calls[i].st.kv = "pending"
  /\ LET c == calls[i]
         key == encodeURIComponent(c.id)
         err == IF fault # "none" THEN FaultErr(fault, "kv")
                ELSE IF key \notin DOMAIN blob THEN Failure("NotFound", 404, "kv")
                ELSE NoErr
     IN /\ blob' = IF err # NoErr THEN blob ELSE Remove(blob, key)
        /\ calls' = [calls EXCEPT ![i] =
             storeCallback_earlier(Settle(c, "kv", err), err)]
  /\ UNCHANGED <<files, resp, ver, index>>

\* ------------------------------------------------------------ behaviours
Next ==
  \/ \E id \in ContentIDs, env \in Envelopes : store(id, env)
  \/ \E id \in ContentIDs : retrieve(id)
  \/ \E id \in ContentIDs : delete(id)
  \/ \E i \in DOMAIN calls, fault \in Faults : kvStore(i, fault)
  \/ \E i \in DOMAIN calls, fault \in Faults : ftsStore(i, fault)
  \/ \E i \in DOMAIN calls, fault \in DeleteFaults : kvDelete(i, fault)
  \/ \E i \in DOMAIN calls, fault \in DeleteFaults : ftsDelete(i, fault)
  \/ \E i \in DOMAIN calls, fault \in DownloadFaults : downloadContent(i, fault)
  \/ \E i \in DOMAIN calls, fault \in Faults : injectAssetVars(i, fault)
  \/ \E id \in ContentIDs, env \in Envelopes : store_earlier(id, env)
  \/ \E id \in ContentIDs : retrieve_earlier(id)
  \/ \E id \in ContentIDs : delete_earlier(id)
  \/ \E i \in DOMAIN calls, fault \in Faults : storeEnvelope(i, fault)
  \/ \E i \in DOMAIN calls, fault \in Faults : indexEnvelope(i, fault)
  \/ \E i \in DOMAIN calls, fault \in DownloadFaults : downloadContent_earlier(i, fault)
  \/ \E i \in DOMAIN calls, fault \in Faults : injectAssetVars_earlier(i, fault)
  \/ \E i \in DOMAIN calls, fault \in Faults : removeFile(i, fault)

Spec == Init /\ [][Next]_vars

\* =============================================== asset pipeline (assets.js)
MaxAssets == 2

\* An uploaded file: its name (asset.name) and the chunks its read stream
\* delivers.  Bytes are single characters.
NameLogo == <<"l", "o", "g", "o", ".", "p", "n", "g">>
NameReadme == <<"R", "E", "A", "D", "M", "E">>
NameDotfile == <<".", "e", "n", "v">>
AssetNames == {NameLogo, NameReadme, NameDotfile}
Sources ==
  { << <<"a", "b">>, <<"c">> >>,
    << <<"a">>, <<"b", "c">> >>,
    << <<"a", "b", "d">> >> }
Uploads == [name : AssetNames, src : Sources]
Batches == UNION { [1..n -> Uploads] : n \in 0..MaxAssets }

RECURSIVE Flatten(_)
Flatten(chunks) ==
  IF chunks = <<>> THEN <<>> ELSE Head(chunks) \o Flatten(Tail(chunks))

\* ---- crypto.createHash('sha256'): a state that absorbs the bytes one by
\* one, and a hex digest of the state.  The mixing function stands in for
\* SHA-256's.
Alphabet == <<"0", "1", "a", "b", "c", "d">>
Code(b) == CHOOSE k \in 1..Len(Alphabet) : Alphabet[k] = b
createHash == 7

RECURSIVE Absorb(_, _)
Absorb(h, bytes) ==
  IF bytes = <<>> THEN h
  ELSE Absorb((h * 31 + Code(Head(bytes))) % 65536, Tail(bytes))

\* Variant: every update starts the state afresh.
update_perChunk(h, chunk) == Absorb(createHash, chunk)

\* sha256sum.update(chunk)
update(h, chunk) == Absorb(h, chunk)

HexDigits ==
  <<"0", "1", "2", "3", "4", "5", "6", "7", "8", "9", "a", "b", "c", "d", "e", "f">>
\* sha256sum.digest('hex')
digest(h) ==
  << HexDigits[((h \div 4096) % 16) + 1], HexDigits[((h \div 256) % 16) + 1],
     HexDigits[((h \div 16) % 16) + 1], HexDigits[(h % 16) + 1] >>

\* ---- path.extname, path.basename (names without directory part)
LastDot(name) ==
  IF \E k \in 1..Len(name) : name[k] = "."
    THEN CHOOSE k \in 1..Len(name) :
           name[k] = "." /\ \A m \in (k + 1)..Len(name) : name[m] # "."
    ELSE 0
extname(name) ==
  IF LastDot(name) <= 1 THEN <<>> ELSE SubSeq(name, LastDot(name), Len(name))
basename(name, ext) ==
  IF /\ ext # <<>>
     /\ Len(name) > Len(ext)
     /\ SubSeq(name, Len(name) - Len(ext) + 1, Len(name)) = ext
    THEN SubSeq(name, 1, Len(name) - Len(ext))
    ELSE name

\* basename + "-" + digest + ext
fingerprinted(name, dig) ==
  basename(name, extname(name)) \o <<"-">> \o dig \o extname(name)

\* ---- publish: for (var chunk in asset.chunks) up.write(chunk) writes the
\* enumerated property names of the array, "0", "1", ...
IndexKeys == <<"0", "1", "2", "3", "4", "5", "6", "7", "8", "9">>
writes(chunks) == [k \in 1..Len(chunks) |-> <<IndexKeys[k]>>]

\* ---- the results array of async.map and the final callback of accept
Hole == [state |-> "hole", original |-> <<>>]
Undefined == [state |-> "undefined", original |-> <<>>]
Value(name) == [state |-> "value", original |-> name]

ErrorResponse == [status |-> 500, error |-> TRUE, summary |-> {}]
Summary(results) ==
  [ status |-> 200, error |-> FALSE,
    summary |-> { results[k].original :
                    k \in { m \in DOMAIN results : results[m].state = "value" } } ]

\* results.forEach(function (result) { ... result.original ... }) throws a
\* TypeError at an entry that is undefined; holes are not visited.
Throws(results) == \E k \in DOMAIN results : results[k].state = "undefined"

\* function (err, results) {...}: on err the 500 answer and next(), with no
\* return; then results.forEach, which may throw; then the 200 answer and
\* next().
acceptCallback(r, isErr) ==
  LET r1 == IF isErr
              THEN [r EXCEPT !.sent = Append(@, ErrorResponse), !.nexts = @ + 1]
              ELSE r
  IN IF Throws(r.results)
       THEN [r1 EXCEPT !.passed = r.results, !.thrown = @ + 1]
       ELSE [r1 EXCEPT !.passed = r.results,
                       !.sent = Append(@, Summary(r.results)), !.nexts = @ + 1]

\* The run-once guard of async around the final callback.  Depending on the
\* async release it is set before the callback is called, or after the
\* callback has returned: then an exception leaving the callback leaves the
\* guard unset and a later completion runs the callback again.
Guards == {"before", "after"}

\* async.map's callback for item i: results[i] = v; the count of running
\* items goes down; the final callback is called with the error if there is
\* one, and without error once no item is running, unless the guard is set.
mapCallback(r, i, isErr, name) ==
  LET r1 == [r EXCEPT !.results[i] = IF isErr THEN Undefined ELSE Value(name)]
      guarded == (r.armed = "before") \/ ~Throws(r1.results)
  IN IF r.called THEN r1
     ELSE IF isErr
       THEN [acceptCallback(r1, TRUE) EXCEPT !.called = guarded]
     ELSE IF \A k \in DOMAIN r1.results : r1.results[k].state # "hole"
       THEN [acceptCallback(r1, FALSE) EXCEPT !.called = guarded]
     ELSE r1

NewFile(u) ==
  [ name |-> u.name, src |-> u.src,
    pos |-> 0,             \* chunks delivered by the read stream
    hash |-> createHash, chunks |-> <<>>,
    stage |-> "reading",   \* reading | readError | uploading | published | uploadError
    readErr |-> FALSE,     \* the read stream has reported an error
    filename |-> <<>>, written |-> <<>> ]

\* exports.accept: async.map starts handleAsset for every file.
accept(batch) ==
  /\ ~resp.started
  /\ files' = [k \in DOMAIN batch |-> NewFile(batch[k])]
  /\ resp' = LET r == [resp EXCEPT !.started = TRUE,
                                    !.results = [k \in DOMAIN batch |-> Hole]]
             IN IF batch = <<>>
                  THEN [acceptCallback(r, FALSE) EXCEPT !.called = TRUE]
                  ELSE r
  /\ UNCHANGED <<ver, blob, index, calls>>

\* Variant: once the batch has failed no further chunk is taken.
data_stopsOnFailure(i) ==
  /\ resp.started
  /\ resp.sent = <<>>
  /\ files[i].stage = "reading"
  /\ files[i].pos < Len(files[i].src)
  /\ files' = [files EXCEPT ![i] =
       [@ EXCEPT !.pos = @ + 1,
                 !.hash = update(@, files[i].src[files[i].pos + 1]),
                 !.chunks = Append(@, files[i].src[files[i].pos + 1])]]
  /\ UNCHANGED <<resp, ver, blob, index, calls>>

\* asset_file.on('data')
data(i) ==
  /\ resp.started
  /\ files[i].stage = "reading"
  /\ files[i].pos < Len(files[i].src)
  /\ files' = [files EXCEPT ![i] =
       [@ EXCEPT !.pos = @ + 1,
                 !.hash = update(@, files[i].src[files[i].pos + 1]),
                 !.chunks = Append(@, files[i].src[files[i].pos + 1])]]
  /\ UNCHANGED <<resp, ver, blob, index, calls>>

\* Variant: a read error hands on what has been read so far.
readError_handsOn(i) ==
  /\ resp.started
  /\ files[i].stage = "reading"
  /\ files' = [files EXCEPT ![i] =
       [@ EXCEPT !.stage = "uploading", !.readErr = TRUE,
                 !.filename = fingerprinted(files[i].name, digest(files[i].hash)),
                 !.written = writes(files[i].chunks)]]
  /\ UNCHANGED <<resp, ver, blob, index, calls>>

\* asset_file.on('error', callback): the waterfall ends with the error.
readError(i) ==
  /\ resp.started
  /\ files[i].stage = "reading"
  /\ files' = [files EXCEPT ![i] = [@ EXCEPT !.stage = "readError", !.readErr = TRUE]]
  /\ resp' = mapCallback(resp, i, TRUE, files[i].name)
  /\ UNCHANGED <<ver, blob, index, calls>>

\* asset_file.on('end'): digest and name, then publish: the upload is opened,
\* written to and ended.
end(i) ==
  /\ resp.started
  /\ files[i].stage = "reading"
  /\ files[i].pos = Len(files[i].src)
  /\ files' = [files EXCEPT ![i] =
       [@ EXCEPT !.stage = "uploading",
                 !.filename = fingerprinted(files[i].name, digest(files[i].hash)),
                 !.written = writes(files[i].chunks)]]
  /\ UNCHANGED <<resp, ver, blob, index, calls>>

\* up.on('finish')
finish(i) ==
  /\ resp.started
  /\ files[i].stage = "uploading"
  /\ files' = [files EXCEPT ![i] = [@ EXCEPT !.stage = "published"]]
  /\ resp' = mapCallback(resp, i, FALSE, files[i].name)
  /\ UNCHANGED <<ver, blob, index, calls>>

\* up.on('error', callback)
uploadError(i) ==
  /\ resp.started
  /\ files[i].stage = "uploading"
  /\ files' = [files EXCEPT ![i] = [@ EXCEPT !.stage = "uploadError"]]
  /\ resp' = mapCallback(resp, i, TRUE, files[i].name)
  /\ UNCHANGED <<ver, blob, index, calls>>

AssetInit ==
  /\ ver = 1
  /\ blob = <<>>
  /\ index = EmptyBag
  /\ calls = <<>>
  /\ files = <<>>
  /\ resp \in { [NoResp EXCEPT !.armed = g] : g \in Guards }

AssetNext ==
  \/ \E batch \in Batches : accept(batch)
  \/ \E i \in DOMAIN files : data(i)
  \/ \E i \in DOMAIN files : readError(i)
  \/ \E i \in DOMAIN files : end(i)
  \/ \E i \in DOMAIN files : finish(i)
  \/ \E i \in DOMAIN files : uploadError(i)

AssetSpec == AssetInit /\ [][AssetNext]_vars

\* ============================================================ properties
Key(id) == encodeURIComponent(id)

\* The calls of the later revision that fork two backend operations.
ForkJoin(i) == ver = 2 /\ calls[i].op \in {"store", "delete"}

\* Call i found its content ID at rest and no later call writes or deletes
\* under that ID.
Undisturbed(i) ==
  /\ calls[i].quiet
  /\ \A j \in DOMAIN calls :
       (j > i /\ calls[j].id = calls[i].id) => calls[j].op = "retrieve"

\* Calls i and j are two consecutive writers of one content ID, the second
\* arriving after the first has settled, with no other writer in between or
\* after.
InSequence(i, j) ==
  /\ i < j
  /\ calls[i].id = calls[j].id
  /\ calls[i].quiet
  /\ calls[j].quiet
  /\ \A k \in DOMAIN calls :
       (k > i /\ k # j /\ calls[k].id = calls[i].id) => calls[k].op = "retrieve"

\* Retrieve r arrived after call i had settled.
Follows(r, i) ==
  /\ r > i
  /\ calls[r].op = "retrieve"
  /\ calls[r].id = calls[i].id
  /\ calls[r].quiet

\* C1: a fork-join store or delete call answers 204 only if both of its
\* backend operations succeeded in that call, and a call one of whose
\* operations failed has reported failure and not 204.
C1_SuccessOnlyIfBoth ==
  \A i \in DOMAIN calls :
    ForkJoin(i) =>
      /\ calls[i].out = "204" => (calls[i].st.kv = "ok" /\ calls[i].st.fts = "ok")
      /\ ("err" \in {calls[i].st.kv, calls[i].st.fts}) =>
            (calls[i].out = "error" /\ calls[i].status # 204)

C1_Witness ==
  /\ \E i \in DOMAIN calls :
       ForkJoin(i) /\ calls[i].op = "store" /\ calls[i].out = "204"
  /\ \E i \in DOMAIN calls :
       /\ ForkJoin(i) /\ calls[i].op = "delete"
       /\ calls[i].st.kv = "ok" /\ calls[i].st.fts = "err"
       /\ calls[i].out = "error"

\* C2: a fork-join call never reports an outcome while one of its backend
\* operations is still in flight.  Fails: async.parallel hands the first error
\* to the final callback, which calls next(err) while the other operation of
\* the call is still pending.
C2_WaitsForBoth ==
  \A i \in DOMAIN calls :
    (ForkJoin(i) /\ calls[i].out # "none") =>
      (calls[i].st.kv # "pending" /\ calls[i].st.fts # "pending")

\* C3: when the blob write of a store succeeded and its index write failed,
\* the call has reported failure, the envelope stays in the BlobStore (nothing
\* removes it), and a later retrieve of the ID whose download is served finds
\* the envelope and, once answered, returns it.
C3_PartialFailureVisible ==
  \A i \in DOMAIN calls :
    (calls[i].op = "store" /\ calls[i].st.kv = "ok" /\ calls[i].st.fts = "err") =>
      /\ calls[i].out = "error"
      /\ calls[i].status # 204
      /\ Undisturbed(i) =>
           /\ Key(calls[i].id) \in DOMAIN blob
           /\ blob[Key(calls[i].id)] = JSONstringify(calls[i].env)
           /\ \A r \in DOMAIN calls :
                (Follows(r, i) /\ calls[r].st.kv \in {"ok", "err"}
                   /\ calls[r].errs.kv.kind # "BackendFailure") =>
                  /\ calls[r].seen = "envelope"
                  /\ calls[r].doc.envelope = calls[i].env
                  /\ calls[r].st.fts = "ok" => calls[r].out = "200"

C3_Witness ==
  \E i, r \in DOMAIN calls :
    /\ calls[i].op = "store" /\ calls[i].st.kv = "ok" /\ calls[i].st.fts = "err"
    /\ Undisturbed(i)
    /\ Follows(r, i)
    /\ calls[r].out = "200"
    /\ calls[r].doc.envelope = calls[i].env

\* C4: after a successful store and then a successful delete of one content
\* ID, with no other writer of that ID, neither backend holds an entry for the
\* ID and a later retrieve whose download is served ends in NotFound.
C4_StoreThenDeleteRemovesBoth ==
  \A i, j \in DOMAIN calls :
    ( /\ InSequence(i, j)
      /\ calls[i].op = "store" /\ calls[i].out = "204"
      /\ calls[j].op = "delete" /\ calls[j].out = "204" ) =>
      /\ Key(calls[i].id) \notin DOMAIN blob
      /\ DocsOf(index, calls[i].id) = {}
      /\ \A r \in DOMAIN calls :
           (Follows(r, j) /\ calls[r].st.kv \in {"ok", "err"}
              /\ calls[r].errs.kv.kind # "BackendFailure") =>
             (calls[r].out = "error" /\ calls[r].err.kind = "NotFound")

\* C5: a fork-join delete whose two backend operations met no backend failure
\* answers 204, whatever the backends held for the ID: nothing, after an
\* earlier delete, or only a blob, after a partially failed store.
C5_DeleteIdempotent ==
  \A i \in DOMAIN calls :
    ( /\ ForkJoin(i) /\ calls[i].op = "delete"
      /\ calls[i].st.kv # "pending" /\ calls[i].st.fts # "pending"
      /\ calls[i].errs.kv.kind # "BackendFailure"
      /\ calls[i].errs.fts.kind # "BackendFailure" ) =>
      /\ calls[i].out = "204"
      /\ calls[i].st.kv = "ok" /\ calls[i].st.fts = "ok"

C5_Witness ==
  \E i, j \in DOMAIN calls :
    /\ i < j
    /\ ForkJoin(i) /\ calls[i].op = "delete" /\ calls[i].out = "204"
    /\ ForkJoin(j) /\ calls[j].op = "delete" /\ calls[j].quiet
    /\ calls[j].out = "204"

\* C6 as stated: the document returned by a retrieve that follows a successful
\* store has E's fields, with E's values, plus assets at the top level.
C6_FieldsMerged ==
  \A i, r \in DOMAIN calls :
    ( /\ calls[i].op = "store" /\ calls[i].out = "204" /\ Undisturbed(i)
      /\ Follows(r, i) /\ calls[r].out = "200" ) =>
      /\ DOMAIN calls[r].doc = DOMAIN calls[i].env \cup {"assets"}
      /\ \A k \in DOMAIN calls[i].env : calls[r].doc[k] = calls[i].env[k]

\* C6 amended: the document returned has exactly the two fields envelope and
\* assets, and its envelope field equals E: same fields, same values.
C6_RoundTripNested ==
  \A i, r \in DOMAIN calls :
    ( /\ calls[i].op = "store" /\ calls[i].out = "204" /\ Undisturbed(i)
      /\ Follows(r, i) /\ calls[r].out = "200" ) =>
      /\ DOMAIN calls[r].doc = {"envelope", "assets"}
      /\ DOMAIN calls[r].doc.envelope = DOMAIN calls[i].env
      /\ \A k \in DOMAIN calls[i].env : calls[r].doc.envelope[k] = calls[i].env[k]

C6_Witness ==
  \E i, r \in DOMAIN calls :
    /\ calls[i].op = "store" /\ calls[i].out = "204" /\ Undisturbed(i)
    /\ Follows(r, i) /\ calls[r].out = "200"
    /\ "body" \in DOMAIN calls[r].doc.envelope

\* C7: a retrieve that finds no object under the ID ends in the NotFound
\* outcome with status 404 and never in 200; every other failure of a retrieve
\* carries the error's explicit statusCode, or 500 when it has none, and so is
\* never mistaken for NotFound.
C7_NotFoundDistinct ==
  \A r \in DOMAIN calls :
    calls[r].op = "retrieve" =>
      /\ calls[r].seen = "absent" =>
           /\ calls[r].out = "error"
           /\ calls[r].err.kind = "NotFound"
           /\ calls[r].status = 404
      /\ (calls[r].out = "error" /\ calls[r].err.kind # "NotFound") =>
           /\ calls[r].status # 404
           /\ calls[r].err.statusCode # 0 => calls[r].status = calls[r].err.statusCode
           /\ calls[r].err.statusCode = 0 => calls[r].status = 500
      /\ calls[r].out = "200" => calls[r].seen = "envelope"

C7_Witness ==
  \E r, q \in DOMAIN calls :
    /\ calls[r].op = "retrieve" /\ calls[r].seen = "absent" /\ calls[r].status = 404
    /\ calls[q].op = "retrieve" /\ calls[q].out = "error"
    /\ calls[q].status \in {500, 503}

\* C8: a retrieve that finds bytes that do not deserialize ends with a Corrupt
\* error handed to the caller, a failure other than NotFound; it is neither
\* left unanswered nor answered with success.
C8_CorruptReported ==
  \A r \in DOMAIN calls :
    (calls[r].op = "retrieve" /\ calls[r].seen = "corrupt") =>
      /\ calls[r].out = "error"
      /\ calls[r].err.kind = "Corrupt"
      /\ calls[r].status \notin {0, 200, 404}

\* C9: after two successful stores of one content ID in sequence, E1 then E2,
\* the BlobStore holds E2 under the ID and the SearchIndex holds exactly one
\* document for the ID, the projection of E2.
C9_RestoreOverwrites ==
  \A i, j \in DOMAIN calls :
    ( /\ InSequence(i, j)
      /\ calls[i].op = "store" /\ calls[i].out = "204"
      /\ calls[j].op = "store" /\ calls[j].out = "204" ) =>
      /\ Key(calls[j].id) \in DOMAIN blob
      /\ blob[Key(calls[j].id)] = JSONstringify(calls[j].env)
      /\ DocsOf(index, calls[j].id) = {Subdoc(calls[j].id, calls[j].env)}
      /\ CopiesIn(Subdoc(calls[j].id, calls[j].env), index) = 1

\* C10: the document a store leaves in the SearchIndex has content_id = id
\* and exactly those of title, publish_date, tags, categories that E has,
\* each with E's value; nothing is defaulted and no other field is copied.
C10_IndexProjection ==
  \A i \in DOMAIN calls :
    (calls[i].op = "store" /\ calls[i].st.fts = "ok" /\ Undisturbed(i)) =>
      \E d \in BagToSet(index) :
        /\ d["content_id"].items = calls[i].id
        /\ DOMAIN d =
             {"content_id"} \cup
             { k \in {"title", "publish_date", "tags", "categories"} :
                 k \in DOMAIN calls[i].env }
        /\ \A k \in DOMAIN d \ {"content_id"} : d[k] = calls[i].env[k]
        /\ "body" \notin DOMAIN d

C10_Witness ==
  \E i, j \in DOMAIN calls :
    /\ calls[i].op = "store" /\ calls[i].st.fts = "ok" /\ calls[i].env = E1
    /\ calls[j].op = "store" /\ calls[j].st.fts = "ok" /\ calls[j].env = E2
    /\ Undisturbed(j)
    /\ Subdoc(calls[j].id, E2) \in BagToSet(index)

\* C15: in racing fork-join stores of one content ID every successful blob
\* write leaves the writer's envelope in the BlobStore and every successful
\* index write leaves the writer's projection as the only document of the ID,
\* each without regard to the other call and without touching the other
\* backend: each backend keeps the value of its own last writer.
C15_LastWriterPerBackend ==
  [][\A i \in DOMAIN calls :
       (ForkJoin(i) /\ calls[i].op = "store") =>
         /\ (calls[i].st.kv = "pending" /\ calls'[i].st.kv = "ok") =>
              /\ Key(calls[i].id) \in DOMAIN blob'
              /\ blob'[Key(calls[i].id)] = JSONstringify(calls[i].env)
              /\ index' = index
         /\ (calls[i].st.fts = "pending" /\ calls'[i].st.fts = "ok") =>
              /\ DocsOf(index', calls[i].id) = {Subdoc(calls[i].id, calls[i].env)}
              /\ blob' = blob]_vars

\* Both racing stores have answered 204; the BlobStore holds the envelope of
\* one and the SearchIndex the projection of the other.
C15_Witness ==
  \E i, j \in DOMAIN calls :
    /\ i # j
    /\ ForkJoin(i) /\ calls[i].op = "store" /\ calls[i].out = "204"
    /\ ForkJoin(j) /\ calls[j].op = "store" /\ calls[j].out = "204"
    /\ calls[i].id = calls[j].id
    /\ calls[i].env # calls[j].env
    /\ ~calls[j].quiet
    /\ Key(calls[i].id) \in DOMAIN blob
    /\ blob[Key(calls[i].id)] = JSONstringify(calls[i].env)
    /\ DocsOf(index, calls[i].id) = {Subdoc(calls[j].id, calls[j].env)}

\* C16: in every store and every delete call both backend operations are
\* issued when the call arrives; neither waits for, or is skipped because
\* of, the other.
C16_BothIssued ==
  \A i \in DOMAIN calls :
    calls[i].op \in {"store", "delete"} =>
      (calls[i].st.kv # "idle" /\ calls[i].st.fts # "idle")

\* C17: when a backend operation of a store, delete or retrieve of the later
\* revision fails, the call stands as failed with an error handed to next; the
\* error is that operation's own unless the call had already failed, in which
\* case the error reported first stays.
C17_FirstErrorSurfaced ==
  [][\A i \in DOMAIN calls : \A b \in {"kv", "fts"} :
       (ver = 2 /\ calls[i].st[b] = "pending" /\ calls'[i].st[b] = "err") =>
         /\ calls'[i].out = "error"
         /\ calls'[i].err # NoErr
         /\ IF calls[i].out = "error"
              THEN /\ calls'[i].err = calls[i].err
                   /\ calls'[i].err.from # b
              ELSE /\ calls'[i].err.from = b
                   /\ calls'[i].err.kind = calls'[i].errs[b].kind]_vars

C17_Witness ==
  \E i \in DOMAIN calls :
    /\ ForkJoin(i)
    /\ calls[i].st.kv = "err" /\ calls[i].st.fts = "err"
    /\ calls[i].out = "error"
    /\ calls[i].err.from = "fts"

\* C19: a store, retrieve or delete call of the later revision produces at
\* most one outcome, either one response followed by one next() or one
\* next(err) and no response, and has produced exactly one once none of its
\* backend operations is in flight.
C19_OneOutcome ==
  \A i \in DOMAIN calls :
    ver = 2 =>
      /\ calls[i].out = "none" => (calls[i].sent = 0 /\ calls[i].nexts = 0)
      /\ calls[i].out = "error" => (calls[i].sent = 0 /\ calls[i].nexts = 1)
      /\ calls[i].out \in {"204", "200"} => (calls[i].sent = 1 /\ calls[i].nexts = 1)
      /\ calls[i].out \in {"none", "error", "204", "200"}
      /\ ("pending" \notin {calls[i].st.kv, calls[i].st.fts}) => calls[i].out # "none"

C19_Witness ==
  /\ ver = 2
  /\ \E i \in DOMAIN calls :
       /\ calls[i].op = "delete"
       /\ calls[i].st.kv = "err" /\ calls[i].st.fts = "err"
       /\ calls[i].nexts = 1 /\ calls[i].sent = 0
  /\ \E i \in DOMAIN calls :
       /\ calls[i].op = "store"
       /\ calls[i].st.kv = "ok" /\ calls[i].st.fts = "err"
       /\ calls[i].nexts = 1 /\ calls[i].sent = 0

\* C20: no step of a retrieve call, its arrival included, changes the
\* BlobStore or the SearchIndex, and the asset lookup of a retrieve is in
\* flight only after its download has succeeded.
C20_RetrieveReadOnly ==
  [][\A i \in DOMAIN calls' :
       ( /\ calls'[i].op = "retrieve"
         /\ (i \in DOMAIN calls => calls[i] # calls'[i]) ) =>
         /\ blob' = blob
         /\ index' = index
         /\ calls'[i].st.fts = "pending" => calls'[i].st.kv = "ok"]_vars

C20_Witness ==
  \E i \in DOMAIN calls :
    /\ calls[i].op = "retrieve"
    /\ calls[i].out = "200"
    /\ "assets" \in DOMAIN calls[i].doc
    /\ Key(calls[i].id) \in DOMAIN blob
    /\ blob[Key(calls[i].id)] = JSONstringify(calls[i].doc.envelope)

\* ------------------------------------------------ asset pipeline claims
Fingerprinted(i) == files[i].stage \in {"uploading", "published", "uploadError"}
Failed(i) == files[i].stage \in {"readError", "uploadError"}

\* C11: the chunks written to an asset's upload stream are, in order and
\* content, the chunks read from its source stream.
C11_UploadsOriginalBytes ==
  \A i \in DOMAIN files :
    Fingerprinted(i) =>
      /\ files[i].chunks = files[i].src
      /\ files[i].written = files[i].chunks

\* C12: once the fingerprint or publish step of an asset of the batch has
\* failed, the request has been answered exactly once, with status 500 and an
\* error body, next has been called once, and no 200 summary has been sent.
\* Fails when two assets of the batch fail and the run-once guard of async is
\* set after the call: the exception of the first run leaves it unset.
C12_AllOrNothing ==
  (\E i \in DOMAIN files : Failed(i)) =>
    /\ resp.sent = <<ErrorResponse>>
    /\ resp.nexts = 1
    /\ \A k \in DOMAIN resp.sent : resp.sent[k].status # 200

\* C13: while the read of one asset of a batch has failed, every other asset
\* that is still being read can take its next chunk, or its end once all
\* chunks are in, and one that is being uploaded can finish; and the request
\* has been answered with the failure.
C13_BatchIndependence ==
  \A j \in DOMAIN files :
    files[j].readErr =>
      /\ ErrorResponse \in { resp.sent[k] : k \in DOMAIN resp.sent }
      /\ \A k \in DOMAIN resp.sent : resp.sent[k].status # 200
      /\ \A i \in DOMAIN files \ {j} :
           /\ (files[i].stage = "reading" /\ files[i].pos < Len(files[i].src))
                => ENABLED data(i)
           /\ (files[i].stage = "reading" /\ files[i].pos = Len(files[i].src))
                => ENABLED end(i)
           /\ files[i].stage = "uploading" => ENABLED finish(i)

\* Asset 1 failed while asset 2 had not completed; asset 2 has since been
\* read to its end and published.
C13_Witness ==
  /\ Len(files) = 2
  /\ files[1].readErr
  /\ resp.passed[2].state = "hole"
  /\ files[2].pos = Len(files[2].src)
  /\ files[2].stage = "published"

\* C14: the digest of a fingerprinted asset is that of its concatenated
\* bytes, however they were split into chunks, and its name is basename,
\* "-", digest, extension; so equal bytes give equal digests, equal bytes under
\* equal names give equal fingerprinted names, and under one name different
\* digests give different fingerprinted names.
C14_FingerprintDeterministic ==
  \A i, j \in DOMAIN files :
    (Fingerprinted(i) /\ Fingerprinted(j)) =>
      /\ files[i].filename =
           fingerprinted(files[i].name,
                         digest(Absorb(createHash, Flatten(files[i].src))))
      /\ Len(files[i].filename) = Len(files[i].name) + 1 + Len(digest(files[i].hash))
      /\ Flatten(files[i].src) = Flatten(files[j].src) =>
           digest(files[i].hash) = digest(files[j].hash)
      /\ (files[i].name = files[j].name
            /\ Flatten(files[i].src) = Flatten(files[j].src)) =>
           files[i].filename = files[j].filename
      /\ (files[i].name = files[j].name
            /\ digest(files[i].hash) # digest(files[j].hash)) =>
           files[i].filename # files[j].filename

C14_Witness ==
  \E i, j \in DOMAIN files :
    /\ Fingerprinted(i) /\ Fingerprinted(j)
    /\ files[i].name = files[j].name
    /\ files[i].src # files[j].src
    /\ Flatten(files[i].src) = Flatten(files[j].src)
    /\ files[i].filename = files[j].filename

\* C18: an asset whose upload has been started has had its source stream
\* read to the end, without error, and carries the name made from the final
\* digest; an asset whose source stream reported a read error has ended with
\* that error and has no upload; nothing is uploaded while an asset is read.
C18_FingerprintBeforePublish ==
  \A i \in DOMAIN files :
    /\ Fingerprinted(i) =>
         /\ ~files[i].readErr
         /\ files[i].pos = Len(files[i].src)
         /\ files[i].chunks = files[i].src
         /\ files[i].hash = Absorb(createHash, Flatten(files[i].src))
         /\ files[i].filename = fingerprinted(files[i].name, digest(files[i].hash))
    /\ files[i].readErr =>
         /\ files[i].stage = "readError"
         /\ files[i].written = <<>>
         /\ files[i].filename = <<>>
         /\ resp.results[i] = Undefined
    /\ files[i].stage = "reading" =>
         (files[i].written = <<>> /\ files[i].filename = <<>>)

C18_Witness ==
  \E i, j \in DOMAIN files :
    /\ files[i].readErr
    /\ files[i].pos >= 1
    /\ files[i].pos < Len(files[i].src)
    /\ files[j].stage = "uploading"

====
